---- MODULE Spec2Model ----
(***************************************************************************)
(* The atomic multi-file commit protocol of the website builder backend:   *)
(* pushAllFiles (blobs -> ref read -> tree -> commit -> ref advance)       *)
(* against a remote content-addressed store, run by concurrent runs.       *)
(* Further down: the build output extractor (extractBuildError), the run    *)
(* registry (saveRun / getRun / updateRun), the two build entry points      *)
(* (buildSiteAsync, validateBuild) and the orchestrator runPromptToRepo.    *)
(***************************************************************************)
EXTENDS Integers, Sequences, FiniteSets, TLC

\* ------------------------------------------------------------------ bounds
MaxFiles == 2
MaxPushes == 2
MaxBuilds == 2          \* BuildRunner calls made in one behaviour
MaxPathLen == 3         \* characters of a raw path given to the normalization
MaxRequests == 2        \* POST /runs/:runId/changes requests in one behaviour

Runs == {"r1", "r2"}

\* ---------------------------------------------------------------- values
NoRef == 0
NoSha == 0
NoErr == [kind |-> "none", status |-> 0, path |-> <<>>]

\* Raw input entries.  Paths are sequences of characters; "a" and "/a" name
\* the same file with different content, "\" normalizes to the empty path.
InputFiles ==
  { [path |-> <<"a">>, content |-> "x"],
    [path |-> <<"/", "a">>, content |-> "y"],
    [path |-> <<"b">>, content |-> "x"],
    [path |-> <<"\\">>, content |-> "y"] }

RECURSIVE SeqsUpTo(_, _)
\* the sequences of at most n distinct elements of S
SeqsUpTo(S, n) ==
  IF n = 0 THEN {<<>>}
  ELSE LET shorter == SeqsUpTo(S, n - 1)
       IN shorter \cup
          UNION {{Append(s, e) : e \in S \ {s[i] : i \in 1..Len(s)}} :
                   s \in {t \in shorter : Len(t) = n - 1}}

FileSets == SeqsUpTo(InputFiles, MaxFiles)

\* r1 is the run under study and is called with any FileSet; r2 is another run
\* writing the same branch, called with a one-file FileSet.
FileSetsOf(p) ==
  IF p = "r1" THEN FileSets ELSE {<<[path |-> <<"b">>, content |-> "y"]>>}

\* ---------------------------------------------------------- normalization
ReplaceBackslashes(s) == [i \in 1..Len(s) |-> IF s[i] = "\\" THEN "/" ELSE s[i]]

RECURSIVE StripLeadingSlashes(_)
StripLeadingSlashes(s) ==
  IF s # <<>> /\ Head(s) = "/" THEN StripLeadingSlashes(Tail(s)) ELSE s

RECURSIVE TrimStart(_)
TrimStart(s) == IF s # <<>> /\ Head(s) = " " THEN TrimStart(Tail(s)) ELSE s

RECURSIVE TrimEnd(_)
TrimEnd(s) ==
  IF s # <<>> /\ s[Len(s)] = " " THEN TrimEnd(SubSeq(s, 1, Len(s) - 1)) ELSE s

Trim(s) == TrimEnd(TrimStart(s))

normalizeRepoPath(path) == Trim(StripLeadingSlashes(ReplaceBackslashes(path)))

\* Map.set on an insertion-ordered map kept as a sequence of entries.
MapSetFirstWins(m, k, v) ==
  IF \E i \in 1..Len(m) : m[i].path = k
  THEN m
  ELSE Append(m, [path |-> k, content |-> v])

MapSet(m, k, v) ==
  IF \E i \in 1..Len(m) : m[i].path = k
  THEN [i \in 1..Len(m) |-> IF m[i].path = k THEN [path |-> k, content |-> v] ELSE m[i]]
  ELSE Append(m, [path |-> k, content |-> v])

RECURSIVE DedupeFrom(_, _)
DedupeFrom(fs, m) ==
  IF fs = <<>> THEN m
  ELSE LET np == normalizeRepoPath(Head(fs).path)
       IN DedupeFrom(Tail(fs), IF np = <<>> THEN m ELSE MapSet(m, np, Head(fs).content))

dedupeAndNormalizeFiles(fs) == DedupeFrom(fs, <<>>)

\* raw paths as a caller may give them: a name character, both slashes, a blank
PathChars == {"a", "/", "\\", " "}

RawPaths == UNION {[1..n -> PathChars] : n \in 1..MaxPathLen}

\* the FileSets whose normalization is studied on its own
RawFileSets ==
  {<<[path |-> p, content |-> "x"]>> : p \in RawPaths}
    \cup {<<[path |-> p, content |-> "x"], [path |-> q, content |-> "y"]>> :
            p \in RawPaths, q \in RawPaths}

\* ------------------------------------------------------------ remote store
\* A blob is addressed by its decoded content: the client sends base64 of the
\* UTF-8 bytes and the store hashes the decoded bytes.
Base64(content) ==
  CASE content = "x" -> "eA=="
    [] content = "y" -> "eQ=="
    [] content = "r" -> "cg=="
    [] OTHER -> "Pw=="

Base64Decode(text) ==
  CASE text = "eA==" -> "x"
    [] text = "eQ==" -> "y"
    [] text = "cg==" -> "r"
    [] OTHER -> "?"

\* the createBlob request body
BlobRequestUtf8(content) == [content |-> Base64(content), encoding |-> "utf-8"]

BlobRequest(content) == [content |-> Base64(content), encoding |-> "base64"]

BlobSha(bytes) == <<"blob", bytes>>

\* the sha the remote answers for a createBlob request
createBlob(req) ==
  BlobSha(IF req.encoding = "base64" THEN Base64Decode(req.content) ELSE req.content)

ReadmePath == <<"R">>
InitTree == [q \in {ReadmePath} |-> BlobSha("r")]
EmptyTree == [q \in {} |-> BlobSha("r")]

VARIABLES ref, commits, blobs, pushes,
          pc, files, normalizedFiles, blobShas, parentSha, baseTreeSha,
          treeSha, commitSha, err, result, calls

\* RunRegistry, the file system and the build, orchestration and extraction
\* processes (their operations are defined further down)
VARIABLES runs, tmp, builds, started,
          tpc, tkind, trun, tfiles, ti, terr, tres, tfix,
          opc, ofiles, oi, orun, oerr, repoFiles,
          raw, excerpt

storeVars == <<runs, tmp, builds, started>>
taskVars == <<tpc, tkind, trun, tfiles, ti, terr, tres, tfix>>
orchVars == <<opc, ofiles, oi, orun, oerr, repoFiles>>
extractVars == <<raw, excerpt>>

\* the handlers of POST /runs/:runId/changes
VARIABLES requests, hpc, hrun, hops, hk, hsha, hresults, hresp, hcalls

changeVars == <<requests, hpc, hrun, hops, hk, hsha, hresults, hresp, hcalls>>
buildVars == <<storeVars, taskVars, orchVars, extractVars, changeVars>>

remote == <<ref, commits, blobs>>
locals == <<files, normalizedFiles, blobShas, parentSha, baseTreeSha,
            treeSha, commitSha, err, result>>
commitVars == <<ref, commits, blobs, pushes, pc, files, normalizedFiles, blobShas,
                parentSha, baseTreeSha, treeSha, commitSha, err, result, calls>>
vars == <<commitVars, buildVars>>

Call(op, path, status) == [op |-> op, path |-> path, status |-> status]
Log(p, op, path, status) == [calls EXCEPT ![p] = Append(@, Call(op, path, status))]

\* tree entries sent to createTree: normalizedFiles[i] paired with blobShas[i]
TreeEntriesFirstOnly(nf, shas) ==
  [i \in 1..(IF Len(nf) > 0 THEN 1 ELSE 0) |-> [path |-> nf[i].path, sha |-> shas[i]]]

TreeEntries(nf, shas) ==
  [i \in 1..Len(nf) |-> [path |-> nf[i].path, sha |-> shas[i]]]

\* createTree on the remote: entries layered over the base tree (if given);
\* for a path named twice the later entry stands.
LayerTree(base, entries) ==
  LET touched == {entries[i].path : i \in 1..Len(entries)}
      last(q) == CHOOSE i \in 1..Len(entries) :
                   /\ entries[i].path = q
                   /\ \A j \in (i + 1)..Len(entries) : entries[j].path # q
  IN [q \in (DOMAIN base) \cup touched |->
        IF q \in touched THEN entries[last(q)].sha ELSE base[q]]

RECURSIVE IsAncestor(_, _)
\* a is c or is reachable from c through parent links
IsAncestor(a, c) ==
  \/ a = c
  \/ /\ commits[c].parents # <<>>
     /\ IsAncestor(a, commits[c].parents[1])

\* updateRef is called without `force`: the remote accepts fast-forwards only
UpdateRefAcceptsForced(new) == ref # NoRef

UpdateRefAccepts(new) == ref # NoRef /\ IsAncestor(ref, new)

\* -------------------------------------------------------------------- Init
\* ------------------------------------------- build side: names and rest state
Tasks == {"t1", "t2"}          \* concurrent BuildRunner calls
RunIds == {"u1", "u2"}         \* the run ids BuildRunner is called with
SavedIds == {"u1"}             \* the ids (uuids) runPromptToRepo hands out

\* buildSiteAsync works in /tmp/preview-<runId>, validateBuild in
\* /tmp/validate-<runId>
TmpDir(kind, runId) == <<kind, runId>>
Dirs == {TmpDir(k, id) : k \in {"preview", "validate"}, id \in RunIds}

Handlers == {"h1", "h2"}       \* concurrent requests to the changes route

HandlersIdle ==
  /\ requests = 0
  /\ hpc = [h \in Handlers |-> "idle"]
  /\ hrun = [h \in Handlers |-> "none"]
  /\ hops = [h \in Handlers |-> <<>>]
  /\ hk = [h \in Handlers |-> 0]
  /\ hsha = [h \in Handlers |-> <<>>]
  /\ hresults = [h \in Handlers |-> <<>>]
  /\ hresp = [h \in Handlers |-> <<>>]
  /\ hcalls = [h \in Handlers |-> <<>>]

\* nothing on disk, no call in progress
WorkersIdle ==
  /\ tmp = [d \in Dirs |-> <<>>]
  /\ builds = [id \in RunIds |-> <<>>]
  /\ started = 0
  /\ tpc = [t \in Tasks |-> "idle"]
  /\ tkind = [t \in Tasks |-> "none"]
  /\ trun = [t \in Tasks |-> "none"]
  /\ tfiles = [t \in Tasks |-> <<>>]
  /\ ti = [t \in Tasks |-> 0]
  /\ terr = [t \in Tasks |-> <<>>]
  /\ tres = [t \in Tasks |-> <<>>]
  /\ tfix = [t \in Tasks |-> <<>>]
  /\ opc = "idle"
  /\ ofiles = <<>>
  /\ oi = 0
  /\ orun = <<>>
  /\ oerr = "none"
  /\ repoFiles = {}

\* and nothing registered
BuildRest ==
  /\ runs = [id \in RunIds |-> <<>>]
  /\ WorkersIdle
  /\ HandlersIdle

BuildIdle ==
  /\ BuildRest
  /\ raw = <<>>
  /\ excerpt = <<>>

CommitRest ==
  /\ \/ /\ ref = NoRef          \* empty repository
        /\ commits = <<>>
        /\ blobs = {}
     \/ /\ ref = 1              \* auto_init'd repository
        /\ commits = <<[tree |-> InitTree, parents |-> <<>>]>>
        /\ blobs = {BlobSha("r")}
  /\ pushes = 0
  /\ pc = [p \in Runs |-> "idle"]
  /\ normalizedFiles = [p \in Runs |-> <<>>]
  /\ blobShas = [p \in Runs |-> <<>>]
  /\ parentSha = [p \in Runs |-> NoSha]
  /\ baseTreeSha = [p \in Runs |-> <<>>]
  /\ treeSha = [p \in Runs |-> <<>>]
  /\ commitSha = [p \in Runs |-> NoSha]
  /\ err = [p \in Runs |-> NoErr]
  /\ result = [p \in Runs |-> <<>>]
  /\ calls = [p \in Runs |-> <<>>]

CommitInit == CommitRest /\ files = [p \in Runs |-> <<>>]

Init == CommitInit /\ BuildIdle

Fail(p, kind, status, path) ==
  /\ pc' = [pc EXCEPT ![p] = "failed"]
  /\ err' = [err EXCEPT ![p] = [kind |-> kind, status |-> status, path |-> path]]

\* ------------------------------------------------ pushAllFiles (hardened)
\* entry: normalize, dedupe, reject an empty result
Start(p) ==
  /\ pc[p] \in {"idle", "done", "failed"}     \* the previous call has returned
  /\ pushes < MaxPushes
  /\ pushes' = pushes + 1
  /\ \E fs \in FileSetsOf(p) :
       /\ files' = [files EXCEPT ![p] = fs]
       /\ normalizedFiles' = [normalizedFiles EXCEPT ![p] = dedupeAndNormalizeFiles(fs)]
       /\ IF Len(dedupeAndNormalizeFiles(fs)) = 0
          THEN Fail(p, "validation", 0, <<>>)
          ELSE /\ pc' = [pc EXCEPT ![p] = "blobs"]
               /\ err' = [err EXCEPT ![p] = NoErr]
  /\ blobShas' = [blobShas EXCEPT ![p] = <<>>]
  /\ parentSha' = [parentSha EXCEPT ![p] = NoSha]
  /\ baseTreeSha' = [baseTreeSha EXCEPT ![p] = <<>>]
  /\ treeSha' = [treeSha EXCEPT ![p] = <<>>]
  /\ commitSha' = [commitSha EXCEPT ![p] = NoSha]
  /\ result' = [result EXCEPT ![p] = <<>>]
  /\ calls' = [calls EXCEPT ![p] = <<>>]
  /\ UNCHANGED remote
  /\ UNCHANGED buildVars

\* the call that follows the blob loop
AfterBlobsTree == "tree"
AfterBlobs == "getRef"

\* one iteration of the sequential blob loop
CreateBlob(p) ==
  /\ pc[p] = "blobs"
  /\ LET i == Len(blobShas[p]) + 1
         file == normalizedFiles[p][i]
     IN \/ /\ blobs' = blobs \cup {createBlob(BlobRequest(file.content))}
           /\ blobShas' = [blobShas EXCEPT ![p] = Append(@, createBlob(BlobRequest(file.content)))]
           /\ calls' = Log(p, "createBlob", <<file.path>>, 201)
           /\ pc' = [pc EXCEPT ![p] = IF i = Len(normalizedFiles[p]) THEN AfterBlobs ELSE "blobs"]
           /\ UNCHANGED err
        \/ /\ calls' = Log(p, "createBlob", <<file.path>>, 500)
           /\ Fail(p, "blob", 0, <<file.path>>)
           /\ UNCHANGED <<blobs, blobShas>>
  /\ UNCHANGED <<ref, commits, pushes, files, normalizedFiles, parentSha,
                 baseTreeSha, treeSha, commitSha, result>>
  /\ UNCHANGED buildVars

\* the catch around getRef/getCommit: `if (err.status !== 404) throw err`
SwallowedNone(status) == FALSE

Swallowed(status) == status = 404

\* git.getRef inside the try block
GetRef(p) ==
  /\ pc[p] = "getRef"
  /\ \/ /\ ref # NoRef
        /\ parentSha' = [parentSha EXCEPT ![p] = ref]
        /\ calls' = Log(p, "getRef", <<>>, 200)
        /\ pc' = [pc EXCEPT ![p] = "getCommit"]
        /\ UNCHANGED err
     \/ /\ ref = NoRef
        /\ calls' = Log(p, "getRef", <<>>, 404)
        /\ IF Swallowed(404)
           THEN pc' = [pc EXCEPT ![p] = "tree"] /\ UNCHANGED err
           ELSE Fail(p, "remote", 404, <<>>)
        /\ UNCHANGED parentSha
     \/ /\ calls' = Log(p, "getRef", <<>>, 500)
        /\ Fail(p, "remote", 500, <<>>)
        /\ UNCHANGED parentSha
  /\ UNCHANGED <<remote, pushes, files, normalizedFiles, blobShas, baseTreeSha,
                 treeSha, commitSha, result>>
  /\ UNCHANGED buildVars

\* git.getCommit inside the same try block
GetCommit(p) ==
  /\ pc[p] = "getCommit"
  /\ \/ /\ baseTreeSha' = [baseTreeSha EXCEPT ![p] = <<commits[parentSha[p]].tree>>]
        /\ calls' = Log(p, "getCommit", <<>>, 200)
        /\ pc' = [pc EXCEPT ![p] = "tree"]
        /\ UNCHANGED err
     \/ /\ calls' = Log(p, "getCommit", <<>>, 404)
        /\ IF Swallowed(404)
           THEN pc' = [pc EXCEPT ![p] = "tree"] /\ UNCHANGED err
           ELSE Fail(p, "remote", 404, <<>>)
        /\ UNCHANGED baseTreeSha
     \/ /\ calls' = Log(p, "getCommit", <<>>, 500)
        /\ Fail(p, "remote", 500, <<>>)
        /\ UNCHANGED baseTreeSha
  /\ UNCHANGED <<remote, pushes, files, normalizedFiles, blobShas, parentSha,
                 treeSha, commitSha, result>>
  /\ UNCHANGED buildVars

CreateTree(p) ==
  /\ pc[p] = "tree"
  /\ \/ /\ treeSha' = [treeSha EXCEPT ![p] =
               <<LayerTree(IF baseTreeSha[p] # <<>> THEN baseTreeSha[p][1] ELSE EmptyTree,
                           TreeEntries(normalizedFiles[p], blobShas[p]))>>]
        /\ calls' = Log(p, "createTree", <<>>, 201)
        /\ pc' = [pc EXCEPT ![p] = "commit"]
        /\ UNCHANGED err
     \/ /\ calls' = Log(p, "createTree", <<>>, 500)
        /\ Fail(p, "tree", 0, <<>>)
        /\ UNCHANGED treeSha
  /\ UNCHANGED <<remote, pushes, files, normalizedFiles, blobShas, parentSha,
                 baseTreeSha, commitSha, result>>
  /\ UNCHANGED buildVars

CreateCommit(p) ==
  /\ pc[p] = "commit"
  /\ \/ /\ commits' = Append(commits,
               [tree |-> treeSha[p][1],
                parents |-> IF parentSha[p] # NoSha THEN <<parentSha[p]>> ELSE <<>>])
        /\ commitSha' = [commitSha EXCEPT ![p] = Len(commits) + 1]
        /\ calls' = Log(p, "createCommit", <<>>, 201)
        /\ pc' = [pc EXCEPT ![p] = "createRef"]
        /\ UNCHANGED err
     \/ /\ calls' = Log(p, "createCommit", <<>>, 500)
        /\ Fail(p, "commit", 0, <<>>)
        /\ UNCHANGED <<commits, commitSha>>
  /\ UNCHANGED <<ref, blobs, pushes, files, normalizedFiles, blobShas, parentSha,
                 baseTreeSha, treeSha, result>>
  /\ UNCHANGED buildVars

\* the value the function returns
ReturnValueParent(p) == [commitSha |-> parentSha[p]]

ReturnValue(p) == [commitSha |-> commitSha[p]]

Done(p) ==
  /\ pc' = [pc EXCEPT ![p] = "done"]
  /\ result' = [result EXCEPT ![p] = <<ReturnValue(p)>>]
  /\ UNCHANGED err

\* the catch around createRef: `if (err.status === 422)` falls back to updateRef
Fallback(status) == status = 422

CreateRef(p) ==
  /\ pc[p] = "createRef"
  /\ \/ /\ ref = NoRef
        /\ ref' = commitSha[p]
        /\ calls' = Log(p, "createRef", <<>>, 201)
        /\ Done(p)
     \/ /\ ref # NoRef                          \* "Reference already exists"
        /\ calls' = Log(p, "createRef", <<>>, 422)
        /\ IF Fallback(422)
           THEN pc' = [pc EXCEPT ![p] = "updateRef"] /\ UNCHANGED err
           ELSE Fail(p, "remote", 422, <<>>)
        /\ UNCHANGED <<ref, result>>
     \/ /\ calls' = Log(p, "createRef", <<>>, 500)
        /\ Fail(p, "remote", 500, <<>>)
        /\ UNCHANGED <<ref, result>>
  /\ UNCHANGED <<commits, blobs, pushes, files, normalizedFiles, blobShas,
                 parentSha, baseTreeSha, treeSha, commitSha>>
  /\ UNCHANGED buildVars

UpdateRef(p) ==
  /\ pc[p] = "updateRef"
  /\ \/ /\ UpdateRefAccepts(commitSha[p])
        /\ ref' = commitSha[p]
        /\ calls' = Log(p, "updateRef", <<>>, 200)
        /\ Done(p)
     \/ /\ ~UpdateRefAccepts(commitSha[p])      \* "Update is not a fast forward"
        /\ calls' = Log(p, "updateRef", <<>>, 422)
        /\ Fail(p, "remote", 422, <<>>)
        /\ UNCHANGED <<ref, result>>
     \/ /\ calls' = Log(p, "updateRef", <<>>, 500)
        /\ Fail(p, "remote", 500, <<>>)
        /\ UNCHANGED <<ref, result>>
  /\ UNCHANGED <<commits, blobs, pushes, files, normalizedFiles, blobShas,
                 parentSha, baseTreeSha, treeSha, commitSha>>
  /\ UNCHANGED buildVars

Next ==
  \E p \in Runs :
    \/ Start(p)
    \/ CreateBlob(p)
    \/ GetRef(p)
    \/ GetCommit(p)
    \/ CreateTree(p)
    \/ CreateCommit(p)
    \/ CreateRef(p)
    \/ UpdateRef(p)

Spec == Init /\ [][Next]_vars

\* ------------------------------------------- dedupeAndNormalizeFiles alone
InitNormalize ==
  /\ CommitRest /\ ref = 1
  /\ \E fs \in RawFileSets : files = [p \in Runs |-> IF p = "r1" THEN fs ELSE <<>>]
  /\ BuildIdle

NormalizeFiles ==
  /\ pc["r1"] = "idle"
  /\ pc' = [pc EXCEPT !["r1"] = "normalized"]
  /\ normalizedFiles' =
       [normalizedFiles EXCEPT !["r1"] = dedupeAndNormalizeFiles(files["r1"])]
  /\ UNCHANGED <<remote, pushes, files, blobShas, parentSha, baseTreeSha, treeSha,
                 commitSha, err, result, calls, buildVars>>

NextNormalize == NormalizeFiles

SpecNormalize == InitNormalize /\ [][NextNormalize]_vars

\* --------------------------------- pushAllFiles (src/github.ts, parallel)
\* a blob slot whose upload has not been answered yet
PendingBlob == BlobSha("")

\* entry: no normalization, no validation; Promise.all over files.map issues
\* every createBlob request at once
LegacyStart(p) ==
  /\ pc[p] \in {"idle", "done", "failed"}
  /\ pushes < MaxPushes
  /\ pushes' = pushes + 1
  /\ \E fs \in FileSetsOf(p) :
       /\ files' = [files EXCEPT ![p] = fs]
       /\ calls' = [calls EXCEPT ![p] =
                      [i \in 1..Len(fs) |-> Call("createBlob", <<fs[i].path>>, 0)]]
       /\ blobShas' = [blobShas EXCEPT ![p] = [i \in 1..Len(fs) |-> PendingBlob]]
       /\ pc' = [pc EXCEPT ![p] = IF Len(fs) = 0 THEN "getRef" ELSE "blobs"]
  /\ normalizedFiles' = [normalizedFiles EXCEPT ![p] = <<>>]
  /\ parentSha' = [parentSha EXCEPT ![p] = NoSha]
  /\ baseTreeSha' = [baseTreeSha EXCEPT ![p] = <<>>]
  /\ treeSha' = [treeSha EXCEPT ![p] = <<>>]
  /\ commitSha' = [commitSha EXCEPT ![p] = NoSha]
  /\ err' = [err EXCEPT ![p] = NoErr]
  /\ result' = [result EXCEPT ![p] = <<>>]
  /\ UNCHANGED remote
  /\ UNCHANGED buildVars

\* one createBlob answer arrives; the first rejection rejects Promise.all with
\* the request error as it is
LegacyBlobResponse(p) ==
  /\ pc[p] = "blobs"
  /\ \E i \in 1..Len(calls[p]) :
       /\ calls[p][i].status = 0
       /\ \/ /\ blobs' = blobs \cup {createBlob(BlobRequest(files[p][i].content))}
             /\ blobShas' = [blobShas EXCEPT ![p][i] = createBlob(BlobRequest(files[p][i].content))]
             /\ calls' = [calls EXCEPT ![p][i].status = 201]
             /\ pc' = [pc EXCEPT ![p] =
                         IF \A j \in 1..Len(calls[p]) : j # i => calls[p][j].status = 201
                         THEN "getRef" ELSE "blobs"]
             /\ UNCHANGED err
          \/ /\ calls' = [calls EXCEPT ![p][i].status = 500]
             /\ Fail(p, "remote", 500, <<>>)
             /\ UNCHANGED <<blobs, blobShas>>
  /\ UNCHANGED <<ref, commits, pushes, files, normalizedFiles, parentSha,
                 baseTreeSha, treeSha, commitSha, result>>
  /\ UNCHANGED buildVars

\* an upload still in flight when Promise.all rejected is answered later
LegacyLateBlob(p) ==
  /\ pc[p] = "failed"
  /\ \E i \in 1..Len(calls[p]) :
       /\ calls[p][i].op = "createBlob"
       /\ calls[p][i].status = 0
       /\ \/ /\ blobs' = blobs \cup {createBlob(BlobRequest(files[p][i].content))}
             /\ calls' = [calls EXCEPT ![p][i].status = 201]
          \/ /\ calls' = [calls EXCEPT ![p][i].status = 500]
             /\ UNCHANGED blobs
  /\ UNCHANGED <<ref, commits, pushes, pc, locals>>
  /\ UNCHANGED buildVars

\* createTree is sent the paths as given; the remote rejects an empty path or
\* one that starts with a slash
LegacyCreateTree(p) ==
  /\ pc[p] = "tree"
  /\ LET malformed == \E i \in 1..Len(files[p]) :
                         files[p][i].path = <<>> \/ Head(files[p][i].path) = "/"
     IN \/ /\ ~malformed
           /\ treeSha' = [treeSha EXCEPT ![p] =
                  <<LayerTree(IF baseTreeSha[p] # <<>> THEN baseTreeSha[p][1] ELSE EmptyTree,
                              TreeEntries(files[p], blobShas[p]))>>]
           /\ calls' = Log(p, "createTree", <<>>, 201)
           /\ pc' = [pc EXCEPT ![p] = "commit"]
           /\ UNCHANGED err
        \/ /\ malformed
           /\ calls' = Log(p, "createTree", <<>>, 422)
           /\ Fail(p, "remote", 422, <<>>)
           /\ UNCHANGED treeSha
        \/ /\ calls' = Log(p, "createTree", <<>>, 500)
           /\ Fail(p, "remote", 500, <<>>)
           /\ UNCHANGED treeSha
  /\ UNCHANGED <<remote, pushes, files, normalizedFiles, blobShas, parentSha,
                 baseTreeSha, commitSha, result>>
  /\ UNCHANGED buildVars

LegacyCreateCommit(p) ==
  /\ pc[p] = "commit"
  /\ \/ /\ commits' = Append(commits,
               [tree |-> treeSha[p][1],
                parents |-> IF parentSha[p] # NoSha THEN <<parentSha[p]>> ELSE <<>>])
        /\ commitSha' = [commitSha EXCEPT ![p] = Len(commits) + 1]
        /\ calls' = Log(p, "createCommit", <<>>, 201)
        /\ pc' = [pc EXCEPT ![p] = "createRef"]
        /\ UNCHANGED err
     \/ /\ calls' = Log(p, "createCommit", <<>>, 500)
        /\ Fail(p, "remote", 500, <<>>)
        /\ UNCHANGED <<commits, commitSha>>
  /\ UNCHANGED <<ref, blobs, pushes, files, normalizedFiles, blobShas, parentSha,
                 baseTreeSha, treeSha, result>>
  /\ UNCHANGED buildVars

NextLegacy ==
  \E p \in Runs :
    \/ LegacyStart(p)
    \/ LegacyBlobResponse(p)
    \/ LegacyLateBlob(p)
    \/ GetRef(p)
    \/ GetCommit(p)
    \/ LegacyCreateTree(p)
    \/ LegacyCreateCommit(p)
    \/ CreateRef(p)
    \/ UpdateRef(p)

SpecLegacy == Init /\ [][NextLegacy]_vars

\* ============================================================ build output
\* A text is the sequence of its lines (the pieces between newline
\* characters, so a text ending in a newline has an empty last line).  A line
\* is its length in characters and a tag naming the notable words in it.
TailLines == 40
MaxErrorChars == 2000

Plain(n) == [tag |-> "", len |-> n]
Tagged(tag, n) == [tag |-> tag, len |-> n]

\* the markers extractBuildError looks for
Markers ==
  {"Failed to compile", "Type error:", "Module not found", "SyntaxError", "Error:"}

\* String.prototype.includes on a line: the markers a line with this tag
\* contains.  The match is case-sensitive, and "SyntaxError: ..." contains
\* both "SyntaxError" and "Error:".
Includes(l, m) ==
  CASE l.tag = "Failed to compile." -> m = "Failed to compile"
    [] l.tag = "Type error: x" -> m = "Type error:"
    [] l.tag = "Module not found: y" -> m = "Module not found"
    [] l.tag = "SyntaxError: z" -> m \in {"SyntaxError", "Error:"}
    [] l.tag = "Error: w" -> m = "Error:"
    [] OTHER -> FALSE

LineTags ==
  {"Failed to compile.", "Type error: x", "Module not found: y", "SyntaxError: z",
   "Error: w", "failed to compile", "npm warn deprecated"}

HasMarker(l) == \E m \in Markers : Includes(l, m)

RECURSIVE SumLen(_)
SumLen(ls) == IF ls = <<>> THEN 0 ELSE ls[1].len + SumLen(Tail(ls))

\* the length of lines.join('\n')
TextLen(ls) == IF ls = <<>> THEN 0 ELSE SumLen(ls) + Len(ls) - 1

RECURSIVE SliceChars(_, _)
\* text.slice(0, n): the first n characters; the cut may fall inside a line
SliceChars(ls, n) ==
  IF Len(ls) <= 1 \/ ls[1].len >= n
  THEN IF ls = <<>> THEN <<>>
       ELSE <<[ls[1] EXCEPT !.len = IF ls[1].len <= n THEN ls[1].len ELSE n]>>
  ELSE <<ls[1]>> \o SliceChars(Tail(ls), n - ls[1].len - 1)

\* lines.findIndex(...): the first line holding a marker, 0 when there is none
FindLastIndex(ls) ==
  IF \E i \in 1..Len(ls) : HasMarker(ls[i])
  THEN CHOOSE i \in 1..Len(ls) :
         HasMarker(ls[i]) /\ \A j \in (i + 1)..Len(ls) : ~HasMarker(ls[j])
  ELSE 0
FindIndex(ls) ==
  IF \E i \in 1..Len(ls) : HasMarker(ls[i])
  THEN CHOOSE i \in 1..Len(ls) :
         HasMarker(ls[i]) /\ \A j \in 1..(i - 1) : ~HasMarker(ls[j])
  ELSE 0

\* lines.slice(-k)
LastLines(ls, k) ==
  SubSeq(ls, IF Len(ls) > k THEN Len(ls) - k + 1 ELSE 1, Len(ls))

extractBuildError(r) ==
  LET startIdx == FindIndex(r)
      relevant == IF startIdx > 0 THEN SubSeq(r, startIdx, Len(r))
                  ELSE LastLines(r, TailLines)
  IN SliceChars(relevant, MaxErrorChars)

\* ------------------------------------------------- ErrorExtractor on its own
Rep(l, n) == [i \in 1..n |-> l]

\* outputs of a build command: a head of unmarked lines, possibly a marked
\* (or look-alike) line, and a tail that may hold a second marker
RawOutputs ==
  { h \o m \o t :
      h \in {Rep(Plain(w), n) : w \in {10, 600}, n \in {0, 1, 39, 40, 41}},
      m \in {<<>>} \cup {<<Tagged(g, 20)>> : g \in LineTags},
      t \in {<<>>, <<Plain(0)>>, Rep(Plain(70), 45),
             <<Plain(5), Tagged("Error: w", 1200), Plain(900)>>} } \ {<<>>}

InitExtract ==
  /\ CommitInit
  /\ BuildRest
  /\ raw \in RawOutputs
  /\ excerpt = <<>>

Extract ==
  /\ excerpt = <<>>
  /\ excerpt' = <<extractBuildError(raw)>>
  /\ UNCHANGED <<commitVars, storeVars, taskVars, orchVars, raw, changeVars>>

NextExtract == Extract

SpecExtract == InitExtract /\ [][NextExtract]_vars

\* ============================================================= RunRegistry
\* `runs` maps a run id to <<>> (no entry) or <<meta>>; a meta is a record
\* that holds exactly the fields that were written.
RunMetaFields ==
  {"runId", "owner", "repo", "repoUrl", "defaultBranch", "prompt", "createdAt",
   "buildStatus", "buildError", "vercelProjectId", "vercelUrl"}

saveRun(rs, meta) == [rs EXCEPT ![meta.runId] = <<meta>>]

getRun(rs, runId) == rs[runId]

\* { ...existing, ...patch }
MergeReplace(existing, patch) == patch
Merge(existing, patch) ==
  [f \in DOMAIN existing \cup DOMAIN patch |->
     IF f \in DOMAIN patch THEN patch[f] ELSE existing[f]]

updateRun(rs, runId, patch) ==
  IF rs[runId] = <<>> THEN rs
  ELSE [rs EXCEPT ![runId] = <<Merge(rs[runId][1], patch)>>]

\* run.buildStatus as a reader sees it
BuildStatusOf(rs, runId) ==
  IF rs[runId] = <<>> THEN "no run"
  ELSE IF "buildStatus" \in DOMAIN rs[runId][1] THEN rs[runId][1].buildStatus
  ELSE "undefined"

\* GET /preview-builds/:id
PreviewResponse(rs, runId) ==
  LET run == getRun(rs, runId)
  IN IF run = <<>> THEN [status |-> 404, body |-> [error |-> "run not found"]]
     ELSE IF BuildStatusOf(rs, runId) = "ready"
     THEN [status |-> 200, body |-> [siteDir |-> runId]]
     ELSE [status |-> IF BuildStatusOf(rs, runId) = "failed" THEN 500 ELSE 202,
           body |-> IF "buildError" \in DOMAIN run[1] /\ TextLen(run[1].buildError) > 0
                    THEN [buildStatus |-> BuildStatusOf(rs, runId),
                          buildError |-> run[1].buildError]
                    ELSE [buildStatus |-> BuildStatusOf(rs, runId)]]

\* ------------------------------------------------------------- file system
ConfigPath == "next.config.js"
NEXT_CONFIG == "output: 'export'"
OutDir == "out"

\* the FileSets handed to a build: generated pages, with or without a
\* next.config.js of the generator's own
BuildFileSets ==
  { <<[path |-> "app/page.tsx", content |-> "page"]>>,
    <<[path |-> ConfigPath, content |-> "generated config"],
      [path |-> "app/page.tsx", content |-> "page"]>> }

\* t1 builds the saved run, t2 the same run or another one; t2 builds the
\* FileSet that has no next.config.js of its own
TaskRuns(t) == IF t = "t1" THEN SavedIds ELSE RunIds
TaskFileSets(t) ==
  IF t = "t1" THEN BuildFileSets ELSE {fs \in BuildFileSets : Len(fs) = 1}

\* a uuid of runPromptToRepo is known to callers once its run was saved; any
\* other id names no run
Known(id) == id \in SavedIds => runs[id] # <<>>

\* the files of a directory; none when it does not exist
FilesIn(fs, d) == IF fs[d] = <<>> THEN <<>> ELSE fs[d][1]

\* mkdir -p of the parent, then writeFile
WriteInto(fs, d, path, content) ==
  [fs EXCEPT ![d] = <<[q \in DOMAIN FilesIn(fs, d) \cup {path} |->
                         IF q = path THEN content ELSE FilesIn(fs, d)[q]]>>]

\* fs.rm(tmpDir, { recursive: true, force: true })
RemovedNothing(fs, d) == fs
Removed(fs, d) == [fs EXCEPT ![d] = <<>>]

\* ------------------------------------------------------------- error texts
\* a rejected fs call or a spawn error: one short line without a marker
FsError == <<Plain(40)>>

\* what a failing command wrote to stderr
BuildStderrs ==
  { <<Plain(60), Tagged("Module not found: y", 400), Plain(1990), Plain(0)>> }

\* `${cmd} ${args.join(' ')} exited with code ${code}\n${stderr}`
CommandError(cmdLen, stderr) == <<Plain(cmdLen + 19)>> \o stderr
InstallCmdLen == 47       \* "npm install --prefer-offline --legacy-peer-deps"
BuildCmdLen == 13         \* "npm run build"

\* ------------------------------------------- buildSiteAsync / validateBuild
Dir(t) == TmpDir(tkind[t], trun[t])

TaskFree(t) == tpc[t] \in {"idle", "returned", "threw"}

BuildSiteAsyncStart(t) ==
  /\ TaskFree(t)
  /\ started < MaxBuilds
  /\ started' = started + 1
  /\ \E id \in TaskRuns(t), fs \in TaskFileSets(t) :
       /\ Known(id)
       /\ trun' = [trun EXCEPT ![t] = id]
       /\ tfiles' = [tfiles EXCEPT ![t] = fs]
       /\ runs' = updateRun(runs, id, [buildStatus |-> "building"])
  /\ tkind' = [tkind EXCEPT ![t] = "preview"]
  /\ tpc' = [tpc EXCEPT ![t] = "write"]
  /\ ti' = [ti EXCEPT ![t] = 1]
  /\ terr' = [terr EXCEPT ![t] = <<>>]
  /\ tres' = [tres EXCEPT ![t] = <<>>]
  /\ tfix' = [tfix EXCEPT ![t] = <<>>]
  /\ UNCHANGED <<commitVars, tmp, builds, orchVars, extractVars, changeVars>>

ValidateBuildStart(t) ==
  /\ TaskFree(t)
  /\ started < MaxBuilds
  /\ started' = started + 1
  /\ \E id \in TaskRuns(t), fs \in TaskFileSets(t) :
       /\ Known(id)
       /\ trun' = [trun EXCEPT ![t] = id]
       /\ tfiles' = [tfiles EXCEPT ![t] = fs]
  /\ tkind' = [tkind EXCEPT ![t] = "validate"]
  /\ tpc' = [tpc EXCEPT ![t] = "write"]
  /\ ti' = [ti EXCEPT ![t] = 1]
  /\ terr' = [terr EXCEPT ![t] = <<>>]
  /\ tres' = [tres EXCEPT ![t] = <<>>]
  /\ tfix' = [tfix EXCEPT ![t] = <<>>]
  /\ UNCHANGED <<commitVars, runs, tmp, builds, orchVars, extractVars, changeVars>>

\* what validateBuild returns from its catch block
ValidationFailureRaw(message) == [success |-> FALSE, error |-> message]
ValidationFailure(message) == [success |-> FALSE, error |-> extractBuildError(message)]

\* where a rejected await of the try block continues: catch, then finally
AfterCatchBuild == "build"
AfterCatch == "finally"

\* the catch block: buildSiteAsync stores the message, validateBuild returns
\* its excerpt
Caught(t, message) ==
  /\ terr' = [terr EXCEPT ![t] = <<message>>]
  /\ tpc' = [tpc EXCEPT ![t] = AfterCatch]
  /\ IF tkind[t] = "preview"
     THEN /\ runs' = updateRun(runs, trun[t],
                               [buildStatus |-> "failed", buildError |-> message])
          /\ UNCHANGED tres
     ELSE /\ tres' = [tres EXCEPT ![t] = <<ValidationFailure(message)>>]
          /\ UNCHANGED runs

\* one iteration of the loop that writes the FileSet into the working directory
WriteFile(t) ==
  /\ tpc[t] = "write"
  /\ \E ok \in BOOLEAN :
       IF ok
       THEN /\ tmp' = WriteInto(tmp, Dir(t), tfiles[t][ti[t]].path,
                                tfiles[t][ti[t]].content)
            /\ ti' = [ti EXCEPT ![t] = ti[t] + 1]
            /\ tpc' = [tpc EXCEPT ![t] =
                         IF ti[t] < Len(tfiles[t]) THEN "write"
                         ELSE IF tkind[t] = "preview" THEN "config" ELSE "install"]
            /\ UNCHANGED <<runs, terr, tres>>
       ELSE /\ Caught(t, FsError)
            /\ UNCHANGED <<tmp, ti>>
  /\ UNCHANGED <<commitVars, builds, started, tkind, trun, tfiles, tfix,
                 orchVars, extractVars, changeVars>>

\* buildSiteAsync only: write next.config.js over whatever the FileSet put there
InjectConfig(t) ==
  /\ tpc[t] = "config"
  /\ \E ok \in {b \in BOOLEAN : b => tmp[Dir(t)] # <<>>} :
       IF ok
       THEN /\ tmp' = WriteInto(tmp, Dir(t), ConfigPath, NEXT_CONFIG)
            /\ tpc' = [tpc EXCEPT ![t] = "install"]
            /\ UNCHANGED <<runs, terr, tres>>
       ELSE /\ Caught(t, FsError)
            /\ UNCHANGED tmp
  /\ UNCHANGED <<commitVars, builds, started, tkind, trun, tfiles, ti, tfix,
                 orchVars, extractVars, changeVars>>

\* npm install in the working directory
Install(t) ==
  /\ tpc[t] = "install"
  /\ \E out \in {<<>>} \cup BuildStderrs :
       IF out = <<>> /\ tmp[Dir(t)] # <<>>
       THEN /\ tpc' = [tpc EXCEPT ![t] = "build"]
            /\ UNCHANGED <<runs, terr, tres>>
       ELSE Caught(t, IF out = <<>> THEN FsError ELSE CommandError(InstallCmdLen, out))
  /\ UNCHANGED <<commitVars, tmp, builds, started, tkind, trun, tfiles, ti, tfix,
                 orchVars, extractVars, changeVars>>

\* npm run build; a successful build leaves the static site in out/
RunBuild(t) ==
  /\ tpc[t] = "build"
  /\ \E out \in {<<>>} \cup BuildStderrs :
       IF out = <<>> /\ tmp[Dir(t)] # <<>>
       THEN /\ tmp' = WriteInto(tmp, Dir(t), OutDir, <<"site of", tfiles[t]>>)
            /\ IF tkind[t] = "preview"
               THEN /\ tpc' = [tpc EXCEPT ![t] = "copy"]
                    /\ UNCHANGED tres
               ELSE /\ tpc' = [tpc EXCEPT ![t] = "finally"]
                    /\ tres' = [tres EXCEPT ![t] = <<[success |-> TRUE]>>]
            /\ UNCHANGED <<runs, terr>>
       ELSE /\ Caught(t, IF out = <<>> THEN FsError ELSE CommandError(BuildCmdLen, out))
            /\ UNCHANGED tmp
  /\ UNCHANGED <<commitVars, builds, started, tkind, trun, tfiles, ti, tfix,
                 orchVars, extractVars, changeVars>>

\* runCommand sets no timer: a command that never exits leaves its promise
\* pending, and the call that awaits it proceeds no further
CommandHangs(t) ==
  /\ tpc[t] \in {"install", "build"}
  /\ tpc' = [tpc EXCEPT ![t] = "pending"]
  /\ UNCHANGED <<commitVars, storeVars, tkind, trun, tfiles, ti, terr, tres, tfix,
                 orchVars, extractVars, changeVars>>

\* the patch written after the artifact was copied
ReadyPatch == [buildStatus |-> "ready"]

\* an artifact location that fs.cp is still writing into
Copying(site) == <<"copying", site>>

\* buildSiteAsync only: mkdir builds/ and the start of the recursive copy of
\* out/ to builds/<runId>, which writes file after file into the destination
CopyStart(t) ==
  /\ tpc[t] = "copy"
  /\ \E ok \in {b \in BOOLEAN : b => OutDir \in DOMAIN FilesIn(tmp, Dir(t))} :
       IF ok
       THEN /\ builds' = [builds EXCEPT ![trun[t]] =
                            <<Copying(FilesIn(tmp, Dir(t))[OutDir])>>]
            /\ tpc' = [tpc EXCEPT ![t] = "copying"]
            /\ UNCHANGED <<runs, terr, tres>>
       ELSE /\ Caught(t, FsError)
            /\ UNCHANGED builds
  /\ UNCHANGED <<commitVars, tmp, started, tkind, trun, tfiles, ti, tfix,
                 orchVars, extractVars, changeVars>>

\* buildSiteAsync only: the copy ends, and after a complete copy the run is
\* marked ready
CopyOut(t) ==
  /\ tpc[t] = "copying"
  /\ \E ok \in {b \in BOOLEAN : b => OutDir \in DOMAIN FilesIn(tmp, Dir(t))} :
       IF ok
       THEN /\ builds' = [builds EXCEPT ![trun[t]] = <<FilesIn(tmp, Dir(t))[OutDir]>>]
            /\ runs' = updateRun(runs, trun[t], ReadyPatch)
            /\ tpc' = [tpc EXCEPT ![t] = "finally"]
            /\ UNCHANGED <<terr, tres>>
       ELSE /\ Caught(t, FsError)
            /\ UNCHANGED builds
  /\ UNCHANGED <<commitVars, tmp, started, tkind, trun, tfiles, ti, tfix,
                 orchVars, extractVars, changeVars>>

\* the finally block; when the removal itself fails the call rejects
Cleanup(t) ==
  /\ tpc[t] = "finally"
  /\ \E ok \in BOOLEAN :
       IF ok
       THEN /\ tmp' = Removed(tmp, Dir(t))
            /\ tpc' = [tpc EXCEPT ![t] = "returned"]
       ELSE /\ tpc' = [tpc EXCEPT ![t] = "threw"]
            /\ UNCHANGED tmp
  /\ ti' = [ti EXCEPT ![t] = 0]
  /\ terr' = [terr EXCEPT ![t] = <<>>]
  /\ UNCHANGED <<commitVars, runs, builds, started, tkind, trun, tfiles,
                 tres, tfix, orchVars, extractVars, changeVars>>

\* ---------------------------------------------------------- fixFilesFromLLM
\* the paths of the scaffold; generated results hold scaffold and LLM files
SCAFFOLD_PATHS == {ConfigPath}
FixErrorChars == 2000

truncatedError(buildError) == SliceChars(buildError, FixErrorChars)

\* what fixFilesFromLLM sends the model: the earlier tool call and the error
FixRequest(previous, buildError) ==
  [files |-> SelectSeq(previous.files, LAMBDA f : f.path \notin SCAFFOLD_PATHS),
   error |-> truncatedError(buildError)]

\* a failed validation is answered by a fix generation that is given the
\* validated files and the error validateBuild returned
FixAfterFailedValidation(t) ==
  /\ tpc[t] = "returned"
  /\ tkind[t] = "validate"
  /\ tres[t] # <<>> /\ ~tres[t][1].success
  /\ tfix[t] = <<>>
  /\ tfix' = [tfix EXCEPT ![t] = <<FixRequest([files |-> tfiles[t]], tres[t][1].error)>>]
  /\ UNCHANGED <<commitVars, storeVars, tpc, tkind, trun, tfiles, ti, terr, tres,
                 orchVars, extractVars, changeVars>>

\* ---------------------------------------------------------- runPromptToRepo
OrchStart ==
  /\ opc \in {"idle", "returned", "threw"}
  /\ \E id \in SavedIds : runs[id] = <<>>      \* an unused uuid remains
  /\ opc' = "createRepo"
  /\ ofiles' = <<>>
  /\ oi' = 0
  /\ orun' = <<>>
  /\ oerr' = "none"
  /\ repoFiles' = {}
  /\ UNCHANGED <<commitVars, storeVars, taskVars, extractVars, changeVars>>

OrchCreateRepo ==
  /\ opc = "createRepo"
  /\ \E ok \in BOOLEAN :
       IF ok THEN opc' = "generate" /\ UNCHANGED oerr
       ELSE opc' = "threw" /\ oerr' = "createRepo"
  /\ UNCHANGED <<commitVars, storeVars, taskVars, ofiles, oi, orun, repoFiles,
                 extractVars, changeVars>>

\* generateFilesFromLLM: one call, its rejection propagates
OrchGenerate ==
  /\ opc = "generate"
  /\ \E gen \in {<<>>} \cup BuildFileSets :
       IF gen # <<>>
       THEN /\ opc' = "upsert"
            /\ ofiles' = gen
            /\ oi' = 1
            /\ UNCHANGED oerr
       ELSE /\ opc' = "threw"
            /\ oerr' = "generate"
            /\ UNCHANGED <<ofiles, oi>>
  /\ UNCHANGED <<commitVars, storeVars, taskVars, orun, repoFiles, extractVars, changeVars>>

\* for (const file of generated.files): files remain after the i-th one
MoreFilesNone(i, fs) == FALSE
MoreFiles(i, fs) == i < Len(fs)

\* one upsertFile of the loop; after the last one the run is saved and the
\* call returns
OrchUpsert ==
  /\ opc = "upsert"
  /\ \E ok \in BOOLEAN :
       IF ok
       THEN /\ repoFiles' = repoFiles \cup {ofiles[oi].path}
            /\ oi' = oi + 1
            /\ IF MoreFiles(oi, ofiles)
               THEN UNCHANGED <<opc, orun, runs>>
               ELSE \E id \in SavedIds :
                      /\ runs[id] = <<>>
                      /\ runs' = saveRun(runs, [runId |-> id, repo |-> "repo",
                                                prompt |-> "prompt"])
                      /\ orun' = <<id>>
                      /\ opc' = "returned"
            /\ UNCHANGED oerr
       ELSE /\ opc' = "threw"
            /\ oerr' = "upsert"
            /\ UNCHANGED <<repoFiles, oi, orun, runs>>
  /\ UNCHANGED <<commitVars, tmp, builds, started, taskVars, ofiles, extractVars, changeVars>>

\* the build side starts from an empty remote repository
InitBuild == Init /\ ref = NoRef

NextBuild ==
  \/ \E t \in Tasks :
       \/ BuildSiteAsyncStart(t)
       \/ ValidateBuildStart(t)
       \/ WriteFile(t)
       \/ InjectConfig(t)
       \/ Install(t)
       \/ RunBuild(t)
       \/ CommandHangs(t)
       \/ CopyStart(t)
       \/ CopyOut(t)
       \/ Cleanup(t)
       \/ FixAfterFailedValidation(t)
  \/ OrchStart
  \/ OrchCreateRepo
  \/ OrchGenerate
  \/ OrchUpsert

SpecBuild == InitBuild /\ [][NextBuild]_vars

\* every continuation of a call that can run does run; when calls are made is
\* up to the callers
TaskStep(t) ==
  \/ WriteFile(t) \/ InjectConfig(t) \/ Install(t) \/ RunBuild(t)
  \/ CopyStart(t) \/ CopyOut(t) \/ Cleanup(t)

SpecBuildLive == SpecBuild /\ \A t \in Tasks : WF_vars(TaskStep(t))

\* ================================================ POST /runs/:runId/changes
\* The operations a request may carry (an upsert in utf8 and one already in
\* base64, deletes of a file path and of a directory path).
ChangeOps ==
  { [op |-> "upsert", path |-> <<"a">>, content |-> "x", encoding |-> "utf8"],
    [op |-> "upsert", path |-> <<"d", "/", "a">>, content |-> "eQ==", encoding |-> "base64"],
    [op |-> "delete", path |-> <<"a">>, content |-> "", encoding |-> ""],
    [op |-> "delete", path |-> <<"d">>, content |-> "", encoding |-> ""] }

\* h1 sends up to two operations (or none, which the schema rejects), h2 one
RequestsOf(h) ==
  IF h = "h1"
  THEN {<<>>} \cup {<<a>> : a \in ChangeOps} \cup {<<a, b>> : a, b \in ChangeOps}
  ELSE {<<a>> : a \in ChangeOps}

\* ------------------------------------------------ the remote's Contents API
HeadTree == IF ref = NoRef THEN EmptyTree ELSE commits[ref].tree

IsDirectory(tree, path) ==
  \E q \in DOMAIN tree :
    Len(q) > Len(path) + 1 /\ SubSeq(q, 1, Len(path) + 1) = path \o <<"/">>

\* repos.getContent: a file object, a listing for a directory, else 404
getContent(tree, path) ==
  IF path \in DOMAIN tree THEN [status |-> 200, type |-> "file", sha |-> <<tree[path]>>]
  ELSE IF IsDirectory(tree, path)
  THEN [status |-> 200, type |-> "dir", sha |-> <<<<"tree", path>>>>]
  ELSE [status |-> 404, type |-> "none", sha |-> <<>>]

\* getFileSha: the sha of a file, null for a 404 and for anything not a file
getFileShaAnyType(answer) == answer.sha
getFileSha(answer) ==
  IF answer.status = 404 \/ answer.type # "file" THEN <<>> ELSE answer.sha

\* the status the remote answers a write with: the sha of the file it replaces
\* or deletes must be given and current, and must be left out for a new file
WriteStatus(tree, op, sha) ==
  IF op.op = "upsert"
  THEN IF op.path \in DOMAIN tree
       THEN (IF sha = <<>> THEN 422 ELSE IF sha = <<tree[op.path]>> THEN 200 ELSE 409)
       ELSE (IF sha = <<>> THEN 201 ELSE 422)
  ELSE IF op.path \in DOMAIN tree
       THEN (IF sha = <<tree[op.path]>> THEN 200 ELSE 409)
       ELSE 404

\* the tree of the commit a write creates
WrittenTreeKeeps(tree, op, base64) ==
  [q \in DOMAIN tree \cup {op.path} |->
     IF q = op.path /\ op.op = "upsert" THEN BlobSha(Base64Decode(base64)) ELSE tree[q]]
WrittenTree(tree, op, base64) ==
  IF op.op = "upsert"
  THEN [q \in DOMAIN tree \cup {op.path} |->
          IF q = op.path THEN BlobSha(Base64Decode(base64)) ELSE tree[q]]
  ELSE [q \in DOMAIN tree \ {op.path} |-> tree[q]]

\* -------------------------------------------------------------- the handler
\* the global error handler's status for an error carrying .status
ErrorStatus(status) ==
  IF status = 422 THEN 409 ELSE IF status >= 500 THEN 502 ELSE status

\* what the global error handler sends for an error next(err) hands it
ErrorResponseOk(status) == [status |-> 200]
ErrorResponse(status) == [status |-> ErrorStatus(status)]

Respond(h, response) ==
  /\ hresp' = [hresp EXCEPT ![h] = <<response>>]
  /\ hpc' = [hpc EXCEPT ![h] = "responded"]

HCall(h, name, status) ==
  [hcalls EXCEPT ![h] = Append(@, [call |-> name, k |-> hk[h], status |-> status])]

\* results.push(...)
PushResultFront(results, r) == <<r>> \o results
PushResult(results, r) == Append(results, r)

\* the request arrives: look the run up, parse the body
ChangesStart(h) ==
  /\ hpc[h] \in {"idle", "responded"}
  /\ requests < MaxRequests
  /\ requests' = requests + 1
  /\ \E id \in RunIds, ops \in RequestsOf(h) :
       /\ hrun' = [hrun EXCEPT ![h] = id]
       /\ hops' = [hops EXCEPT ![h] = ops]
       /\ IF getRun(runs, id) = <<>>
          THEN Respond(h, [status |-> 404]) /\ hk' = [hk EXCEPT ![h] = 0]
          ELSE IF ops = <<>>
          THEN Respond(h, [status |-> 400]) /\ hk' = [hk EXCEPT ![h] = 0]
          ELSE /\ hpc' = [hpc EXCEPT ![h] = "read"]
               /\ hk' = [hk EXCEPT ![h] = 1]
               /\ hresp' = [hresp EXCEPT ![h] = <<>>]
  /\ hsha' = [hsha EXCEPT ![h] = <<>>]
  /\ hresults' = [hresults EXCEPT ![h] = <<>>]
  /\ hcalls' = [hcalls EXCEPT ![h] = <<>>]
  /\ UNCHANGED <<commitVars, storeVars, taskVars, orchVars, extractVars>>

\* getFileSha of the current operation; deleteFile throws when it is null
GetFileSha(h) ==
  /\ hpc[h] = "read"
  /\ LET op == hops[h][hk[h]]
         answer == getContent(HeadTree, op.path)
     IN \E transport \in {200, 500} :
          IF transport = 500
          THEN /\ hcalls' = HCall(h, "getContent", 500)
               /\ Respond(h, ErrorResponse(500))
               /\ UNCHANGED hsha
          ELSE /\ hcalls' = HCall(h, "getContent", answer.status)
               /\ hsha' = [hsha EXCEPT ![h] = getFileSha(answer)]
               /\ IF op.op = "delete" /\ getFileSha(answer) = <<>>
                  THEN Respond(h, ErrorResponse(404))
                  ELSE hpc' = [hpc EXCEPT ![h] = "write"] /\ UNCHANGED hresp
  /\ UNCHANGED <<commitVars, storeVars, taskVars, orchVars, extractVars,
                 requests, hrun, hops, hk, hresults>>

\* createOrUpdateFileContents or repos.deleteFile of the current operation;
\* after the last operation the results are sent
WriteContents(h) ==
  /\ hpc[h] = "write"
  /\ LET op == hops[h][hk[h]]
         name == IF op.op = "upsert" THEN "createOrUpdateFileContents" ELSE "deleteFile"
         base64 == IF op.encoding = "base64" THEN op.content ELSE Base64(op.content)
         status == WriteStatus(HeadTree, op, hsha[h])
     IN \E transport \in {200, 500} :
          IF transport = 200 /\ status \in {200, 201}
          THEN /\ commits' = Append(commits,
                     [tree |-> WrittenTree(HeadTree, op, base64),
                      parents |-> IF ref = NoRef THEN <<>> ELSE <<ref>>])
               /\ ref' = Len(commits) + 1
               /\ blobs' = IF op.op = "upsert"
                           THEN blobs \cup {BlobSha(Base64Decode(base64))} ELSE blobs
               /\ hcalls' = HCall(h, name, status)
               /\ hresults' = [hresults EXCEPT ![h] =
                    PushResult(@, [path |-> op.path,
                                   action |-> IF op.op = "delete" THEN "deleted"
                                              ELSE IF hsha[h] # <<>> THEN "updated"
                                              ELSE "created",
                                   commitSha |-> Len(commits) + 1])]
               /\ IF hk[h] < Len(hops[h])
                  THEN /\ hk' = [hk EXCEPT ![h] = hk[h] + 1]
                       /\ hpc' = [hpc EXCEPT ![h] = "read"]
                       /\ UNCHANGED hresp
                  ELSE /\ Respond(h, [status |-> 200, ok |-> TRUE, results |-> hresults'[h]])
                       /\ UNCHANGED hk
          ELSE /\ hcalls' = HCall(h, name, IF transport = 500 THEN 500 ELSE status)
               /\ Respond(h, ErrorResponse(IF transport = 500 THEN 500 ELSE status))
               /\ UNCHANGED <<remote, hresults, hk>>
  /\ UNCHANGED <<pushes, pc, locals, calls, storeVars, taskVars, orchVars, extractVars,
                 requests, hrun, hops, hsha>>

\* a saved run on an auto_init'd repository
InitChanges ==
  /\ CommitInit
  /\ ref = 1
  /\ runs = saveRun([id \in RunIds |-> <<>>],
                    [runId |-> "u1", repo |-> "repo", prompt |-> "prompt"])
  /\ WorkersIdle
  /\ HandlersIdle
  /\ raw = <<>>
  /\ excerpt = <<>>

NextChanges ==
  \E h \in Handlers :
    \/ ChangesStart(h)
    \/ GetFileSha(h)
    \/ WriteContents(h)

SpecChanges == InitChanges /\ [][NextChanges]_vars

\* ================================================================= claims

\* C1: a successful pushAllFiles creates exactly one commit, the tree of that
\* commit holds every path of the FileSet whose normalized path is unique in
\* it, with the content given, and when the call returns the branch ref points
\* at that commit.
C1_OneCommitAllFiles ==
  [][\A p \in Runs :
       (pc[p] # "done" /\ pc'[p] = "done") =>
         /\ Cardinality({i \in 1..Len(calls'[p]) : calls'[p][i].op = "createCommit"}) = 1
         /\ commitSha[p] \in 1..Len(commits')
         /\ ref' = commitSha[p]
         /\ \A i \in 1..Len(files[p]) :
              LET np == normalizeRepoPath(files[p][i].path)
              IN (/\ np # <<>>
                  /\ \A j \in 1..Len(files[p]) :
                       j # i => normalizeRepoPath(files[p][j].path) # np)
                 => /\ np \in DOMAIN commits'[ref'].tree
                    /\ commits'[ref'].tree[np] = BlobSha(files[p][i].content)]_vars

\* C1 witness: a push of two files with distinct normalized paths has returned
\* and the branch points at its commit
W_C1 ==
  /\ pc["r1"] = "done"
  /\ Len(files["r1"]) = 2
  /\ Len(normalizedFiles["r1"]) = 2
  /\ ref = commitSha["r1"]
  /\ DOMAIN commits[ref].tree = {<<"a">>, <<"b">>}

\* C2: commit objects never change and the branch ref only ever moves to a
\* commit whose tree holds every valid file of the FileSet of the push that
\* moves it, so the tree read through the branch is the one from before the
\* push or the complete new one.
C2_OldOrCompleteTree ==
  [][/\ Len(commits') >= Len(commits)
     /\ \A c \in 1..Len(commits) : commits'[c] = commits[c]
     /\ ref' # ref =>
          \E p \in Runs :
            /\ pc[p] \in {"createRef", "updateRef"}
            /\ ref' = commitSha[p]
            /\ \A i \in 1..Len(files[p]) :
                 LET np == normalizeRepoPath(files[p][i].path)
                 IN np # <<>> =>
                      /\ np \in DOMAIN commits'[ref'].tree
                      /\ \E j \in 1..Len(files[p]) :
                           /\ normalizeRepoPath(files[p][j].path) = np
                           /\ commits'[ref'].tree[np] = BlobSha(files[p][j].content)]_vars

\* C2 witness: the branch moved from an older commit to the commit of a
\* two-file push
W_C2 ==
  /\ pc["r1"] = "done"
  /\ ref = commitSha["r1"]
  /\ commits[ref].parents # <<>>
  /\ Len(normalizedFiles["r1"]) = 2
  /\ commits[ref].tree # commits[commits[ref].parents[1]].tree

\* C3: after a not-found answer to the ref read the push has no parent and no
\* base tree, its commit has zero parents, it never fails with a not-found
\* error, and when it returns it has created the ref.
C3_NotFoundIsFirstCommit ==
  \A p \in Runs :
    (\E i \in 1..Len(calls[p]) : calls[p][i] = Call("getRef", <<>>, 404)) =>
      /\ parentSha[p] = NoSha
      /\ baseTreeSha[p] = <<>>
      /\ pc[p] # "getRef"
      /\ pc[p] = "failed" => err[p].status # 404
      /\ commitSha[p] # NoSha => commits[commitSha[p]].parents = <<>>
      /\ pc[p] = "done" => calls[p][Len(calls[p])] = Call("createRef", <<>>, 201)

\* C3 witness: a push on an empty repository has returned after a not-found
\* ref read, and the branch points at its parentless commit
W_C3 ==
  /\ pc["r1"] = "done"
  /\ \E i \in 1..Len(calls["r1"]) : calls["r1"][i] = Call("getRef", <<>>, 404)
  /\ ref = commitSha["r1"]
  /\ commits[ref].parents = <<>>

\* C4: whenever the branch ref moves off a commit, the commit it moves to has
\* that commit as its parent: accepted commits form one chain and none becomes
\* unreachable from the branch head.
C4_MonotoneHistory ==
  [][(ref # NoRef /\ ref' # ref) =>
       /\ ref' \in 1..Len(commits')
       /\ commits'[ref'].parents = <<ref>>]_vars

\* C4 witness: run r1 alone committed twice on an empty repository and the
\* branch points at its second commit, whose parent is its first
W_C4 ==
  /\ pc["r2"] = "idle"
  /\ pc["r1"] = "done"
  /\ Len(commits) = 2
  /\ commits[1].parents = <<>>
  /\ commits[1].tree # InitTree
  /\ commitSha["r1"] = 2
  /\ ref = 2
  /\ commits[2].parents = <<1>>

\* C5: a push whose ref read answered not-found and whose ref-create was
\* rejected as already existing returns its commit id; unless the transport
\* fails (5xx), no error reaches the caller.
C5_RaceRecovered ==
  \A p \in Runs :
    (/\ \E i \in 1..Len(calls[p]) : calls[p][i] = Call("getRef", <<>>, 404)
     /\ \E i \in 1..Len(calls[p]) : calls[p][i] = Call("createRef", <<>>, 422)
     /\ pc[p] \in {"done", "failed"})
    => \/ pc[p] = "done" /\ result[p] = <<[commitSha |-> commitSha[p]]>>
       \/ pc[p] = "failed" /\ err[p].status = 500

\* C6: a push called with a FileSet without a valid entry issues no remote
\* request and never returns a commit.
C6_EmptyRejectedBeforeAnyCall ==
  \A p \in Runs :
    (/\ pc[p] # "idle"
     /\ \A i \in 1..Len(files[p]) : normalizeRepoPath(files[p][i].path) = <<>>)
    => calls[p] = <<>> /\ pc[p] # "done"

\* C7: normalizedFiles has one entry per distinct non-empty normalized path of
\* the input, each with the content of the last input entry of that path, and
\* the tree built pairs each path with the blob of that content.
C7_LastWriteWins ==
  \A p \in Runs :
    pc[p] \notin {"idle"} =>
      LET nf == normalizedFiles[p]
          fs == files[p]
      IN /\ \A i, j \in 1..Len(nf) : nf[i].path = nf[j].path => i = j
         /\ {nf[i].path : i \in 1..Len(nf)} =
              {normalizeRepoPath(fs[i].path) : i \in 1..Len(fs)} \ {<<>>}
         /\ \A i \in 1..Len(nf) :
              \E k \in 1..Len(fs) :
                /\ normalizeRepoPath(fs[k].path) = nf[i].path
                /\ \A m \in (k + 1)..Len(fs) : normalizeRepoPath(fs[m].path) # nf[i].path
                /\ nf[i].content = fs[k].content
                /\ treeSha[p] # <<>> =>
                     /\ nf[i].path \in DOMAIN treeSha[p][1]
                     /\ treeSha[p][1][nf[i].path] = BlobSha(fs[k].content)

\* C7 witness: the input named one file twice with different content and the
\* tree has been built
W_C7 ==
  /\ Len(files["r1"]) = 2
  /\ normalizeRepoPath(files["r1"][1].path) = normalizeRepoPath(files["r1"][2].path)
  /\ files["r1"][1].content # files["r1"][2].content
  /\ Len(normalizedFiles["r1"]) = 1
  /\ treeSha["r1"] # <<>>

\* C8: once a blob upload has failed the push has failed with an error naming
\* that path, and the failed upload is the last request the push has issued.
C8_BlobFailureNamesPath ==
  \A p \in Runs :
    \A i \in 1..Len(calls[p]) :
      (calls[p][i].op = "createBlob" /\ calls[p][i].status = 500) =>
        /\ pc[p] = "failed"
        /\ err[p].path = calls[p][i].path
        /\ i = Len(calls[p])

\* C9: when the ref read found the branch, the tree built keeps every path of
\* the tree of the branch tip that the FileSet does not name, with its blob,
\* and maps every path of the FileSet to its new blob.
C9_LayeredOnBaseTree ==
  \A p \in Runs :
    (/\ treeSha[p] # <<>>
     /\ \E i \in 1..Len(calls[p]) : calls[p][i] = Call("getRef", <<>>, 200))
    => LET base == commits[parentSha[p]].tree
           new == treeSha[p][1]
           nf == normalizedFiles[p]
           touched == {nf[i].path : i \in 1..Len(nf)}
       IN /\ \A q \in (DOMAIN base) \ touched : q \in DOMAIN new /\ new[q] = base[q]
          /\ \A i \in 1..Len(nf) :
               nf[i].path \in DOMAIN new /\ new[nf[i].path] = BlobSha(nf[i].content)

C11_WorkDirRemoved ==
  [][\A t \in Tasks :
       (tpc[t] = "finally" /\ tpc'[t] = "returned") => tmp'[Dir(t)] = <<>>]_vars

\* C11 witness: a validateBuild call whose command failed after its files were
\* written has returned, and so has a buildSiteAsync call that copied its
\* artifact; neither working directory exists
W_C11 ==
  /\ tpc["t1"] = "returned" /\ tkind["t1"] = "validate"
  /\ tres["t1"] # <<>> /\ ~tres["t1"][1].success
  /\ TextLen(tres["t1"][1].error) > TextLen(FsError)
  /\ tmp[Dir("t1")] = <<>>
  /\ tpc["t2"] = "returned" /\ tkind["t2"] = "preview"
  /\ builds[trun["t2"]] # <<>>
  /\ tmp[Dir("t2")] = <<>>

\* C12: in every build, when the first build command is about to start, the
\* file next.config.js of the working directory holds the system's
\* static-export configuration, also when the FileSet has an entry of that
\* path; this holds for buildSiteAsync and for validateBuild.
C12_ConfigIsSystems ==
  \A t \in Tasks :
    tpc[t] = "install" =>
      /\ ConfigPath \in DOMAIN FilesIn(tmp, Dir(t))
      /\ FilesIn(tmp, Dir(t))[ConfigPath] = NEXT_CONFIG

\* C13: extractBuildError returns the text from the first line that holds a
\* failure marker through the end of the output; when no line holds a marker
\* it returns the last 40 lines (all of them when there are fewer); in both
\* cases the text is cut to its first 2000 characters.
C13_ExtractFromMarkerOrTail ==
  excerpt # <<>> =>
    LET e == excerpt[1]
        n == Len(raw)
        marked == {i \in 1..n : \E m \in Markers : Includes(raw[i], m)}
        from == IF marked # {}
                THEN CHOOSE i \in marked : \A j \in marked : i <= j
                ELSE IF n > 40 THEN n - 39 ELSE 1
        want == SubSeq(raw, from, n)
        k == Len(e)
    IN /\ TextLen(e) <= 2000
       /\ TextLen(e) = IF TextLen(want) <= 2000 THEN TextLen(want) ELSE 2000
       /\ k >= 1 /\ k <= Len(want)
       /\ \A j \in 1..(k - 1) : e[j] = want[j]
       /\ e[k].tag = want[k].tag /\ e[k].len <= want[k].len

\* C13 witness: the first marker is not on the first line, a later line holds
\* a marker too, and the text from the first marker on is cut at 2000
W_C13 ==
  /\ excerpt # <<>>
  /\ FindIndex(raw) > 1
  /\ \E j \in (FindIndex(raw) + 1)..Len(raw) : HasMarker(raw[j])
  /\ TextLen(SubSeq(raw, FindIndex(raw), Len(raw))) > 2000
  /\ TextLen(excerpt[1]) = 2000

\* C14: the statuses ready and failed are terminal: once a run's status is
\* ready or failed, no step (another build or fix attempt for the same run
\* id, any updateRun call) changes it.
C14_TerminalStatus ==
  [][\A id \in RunIds :
       BuildStatusOf(runs, id) \in {"ready", "failed"} =>
         BuildStatusOf(runs', id) = BuildStatusOf(runs, id)]_vars

\* C15: the status of a run advances monotonically through pending, building,
\* then ready or failed; it never steps back (building is never followed by
\* pending, a finished run is never building again).
C15_MonotoneStatus ==
  [][\A id \in RunIds :
       LET rank(st) == CASE st = "pending" -> 1
                         [] st = "building" -> 2
                         [] st \in {"ready", "failed"} -> 3
                         [] OTHER -> 0
       IN rank(BuildStatusOf(runs', id)) >= rank(BuildStatusOf(runs, id))]_vars

\* C16: a status read of a run whose status is building carries no error
\* field, also when the run is building again after an earlier attempt failed.
C16_NoErrorWhileBuilding ==
  \A id \in RunIds :
    BuildStatusOf(runs, id) = "building" =>
      "buildError" \notin DOMAIN PreviewResponse(runs, id).body

\* C17: every buildError stored for a failed run is the extractBuildError
\* excerpt of the failure and is at most 2000 characters long.
C17_StoredErrorIsExcerpt ==
  [][\A t \in Tasks :
       (tkind[t] = "preview" /\ terr[t] = <<>> /\ terr'[t] # <<>>
          /\ runs[trun[t]] # <<>>) =>
         /\ runs'[trun[t]][1].buildError = extractBuildError(terr'[t][1])
         /\ TextLen(runs'[trun[t]][1].buildError) <= 2000]_vars

\* C18: a run whose generation fails on every attempt ends with status failed
\* in the registry (after the configured number of attempts).
C18_FailedAfterMaxAttempts ==
  (opc = "threw" /\ oerr = "generate") =>
    \E id \in RunIds : BuildStatusOf(runs, id) = "failed"

\* C19: the registry entry of a run records one attempt per build executed
\* for it: a run whose first generation and first build both succeed ends
\* with status ready, its artifact present at the location keyed by its run
\* id, and exactly one attempt recorded.
C19_OneAttemptRecorded ==
  \A id \in RunIds :
    BuildStatusOf(runs, id) = "ready" =>
      /\ builds[id] # <<>>
      /\ "attempts" \in DOMAIN runs[id][1]
      /\ Len(runs[id][1].attempts) >= 1
      /\ (started = 1 => Len(runs[id][1].attempts) = 1)

\* C20: after a failed build the fix generation receives the prior FileSet
\* and exactly the extractBuildError excerpt of that build; and a run that is
\* ready after a failed and a successful build has two attempts recorded,
\* the first a failure carrying the excerpt, the second a success.
C20_FixThenTwoAttempts ==
  /\ \A t \in Tasks :
       tfix[t] # <<>> =>
         /\ tfix[t][1].error = tres[t][1].error
         /\ tfix[t][1].files = tfiles[t]
  /\ \A id \in RunIds :
       (BuildStatusOf(runs, id) = "ready" /\ "buildError" \in DOMAIN runs[id][1]) =>
         /\ "attempts" \in DOMAIN runs[id][1]
         /\ Len(runs[id][1].attempts) = 2
         /\ runs[id][1].attempts[1] =
              [outcome |-> "failure", errorExcerpt |-> runs[id][1].buildError]
         /\ runs[id][1].attempts[2].outcome = "success"

\* C28: in every commit the parent commit id and the base tree id are both
\* present or both absent, and they are absent exactly when the ref read
\* answered not-found; a not-found answer to the read of the tip commit never
\* gives a commit with a parent and no base tree.
C28_ParentAndBaseTogether ==
  \A p \in Runs :
    commitSha[p] # NoSha =>
      /\ parentSha[p] # NoSha <=> baseTreeSha[p] # <<>>
      /\ parentSha[p] = NoSha <=>
           \E i \in 1..Len(calls[p]) : calls[p][i] = Call("getRef", <<>>, 404)

\* C29: when the remote calls of two pushes to the same branch interleave,
\* both pushes return without error (transport failures aside), and after
\* both have returned the history of the branch head holds both commits.
C29_InterleavedBothLand ==
  \A p, q \in Runs :
    (/\ p # q
     /\ pc[p] \in {"done", "failed"} /\ pc[q] \in {"done", "failed"}
     /\ calls[p] # <<>> /\ calls[q] # <<>>
     /\ \A r \in {p, q} : \A i \in 1..Len(calls[r]) : calls[r][i].status # 500)
    => /\ pc[p] = "done" /\ pc[q] = "done"
       /\ IsAncestor(commitSha[p], ref) /\ IsAncestor(commitSha[q], ref)

\* C30: the remote calls of one push are issued in the order blob uploads,
\* ref read, tree create, commit create, ref advance; the branch ref is
\* written only by a ref advance that was accepted, to a commit that exists;
\* a push that fails leaves the ref where it was.
C30_OrderedCallsRefLast ==
  [][/\ \A p \in Runs :
          (calls'[p] # calls[p] /\ calls'[p] # <<>>) =>
            LET cs == calls'[p]
                j == Len(cs)
                op == cs[j].op
                last == IF j > 1 THEN cs[j - 1] ELSE Call("none", <<>>, 0)
            IN /\ calls[p] = SubSeq(cs, 1, j - 1)
               /\ op = "createBlob" => last.op \in {"none", "createBlob"}
               /\ op = "getRef" =>
                    /\ last.op = "createBlob"
                    /\ \A i \in 1..(j - 1) : cs[i].op = "createBlob" /\ cs[i].status = 201
                    /\ j - 1 = Len(normalizedFiles[p])
               /\ op = "getCommit" => last = Call("getRef", <<>>, 200)
               /\ op = "createTree" =>
                    last.op \in {"getRef", "getCommit"} /\ last.status \in {200, 404}
               /\ op = "createCommit" => last = Call("createTree", <<>>, 201)
               /\ op = "createRef" => last = Call("createCommit", <<>>, 201)
               /\ op = "updateRef" => last = Call("createRef", <<>>, 422)
     /\ \A p \in Runs : (pc[p] # "failed" /\ pc'[p] = "failed") => ref' = ref
     /\ ref' # ref =>
          \E p \in Runs :
            /\ pc[p] \in {"createRef", "updateRef"} /\ pc'[p] = "done"
            /\ commitSha[p] \in 1..Len(commits)
            /\ ref' = commitSha[p]]_vars

\* C30 witness: one push went through all five kinds of call and advanced the
\* ref; the other failed at commit create after its tree was built, and the
\* ref is the first push's commit
W_C30 ==
  /\ pc["r1"] = "done"
  /\ Len(calls["r1"]) >= 5
  /\ ref = commitSha["r1"]
  /\ pc["r2"] = "failed" /\ err["r2"].kind = "commit"
  /\ \E i \in 1..Len(calls["r2"]) : calls["r2"][i] = Call("createTree", <<>>, 201)

\* C21: the operations of one request are applied strictly in submission
\* order: a remote call of operation k+1 is issued only after the write of
\* operation k was accepted, and the results are returned in that order.
C21_InSubmissionOrder ==
  \A h \in Handlers :
    LET cs == hcalls[h]
        writes == {"createOrUpdateFileContents", "deleteFile"}
    IN /\ \A j \in 1..Len(cs) :
            /\ \A i \in 1..(j - 1) : cs[i].k <= cs[j].k
            /\ cs[j].k > 1 =>
                 \E i \in 1..(j - 1) :
                   /\ cs[i].k = cs[j].k - 1
                   /\ cs[i].call \in writes /\ cs[i].status \in {200, 201}
       /\ Len(hresults[h]) <= Len(hops[h])
       /\ \A i \in 1..Len(hresults[h]) :
            /\ hresults[h][i].path = hops[h][i].path
            /\ hresults[h][i].action = "deleted" <=> hops[h][i].op = "delete"
            /\ \A j \in 1..(i - 1) : hresults[h][j].commitSha < hresults[h][i].commitSha
       /\ (hresp[h] # <<>> /\ hresp[h][1].status = 200) =>
            /\ hresp[h][1].results = hresults[h]
            /\ Len(hresults[h]) = Len(hops[h])

\* C21 witness: a request of two operations on different paths was answered
\* with both results
W_C21 ==
  /\ hresp["h1"] # <<>> /\ hresp["h1"][1].status = 200
  /\ Len(hops["h1"]) = 2
  /\ hops["h1"][1].path # hops["h1"][2].path
  /\ hops["h1"][1].op # hops["h1"][2].op

\* C22: a batch that upserts a path and then deletes the same path is applied
\* in order, and when it has been applied the file is absent from the
\* repository, whether or not it existed before; the batch is applied
\* whenever no call of it fails in transport and no other request runs.
C22_UpsertThenDeleteLeavesAbsent ==
  [][\A h \in Handlers :
       (/\ hpc[h] # "responded" /\ hpc'[h] = "responded"
        /\ Len(hops[h]) = 2
        /\ hops[h][1].op = "upsert" /\ hops[h][2].op = "delete"
        /\ hops[h][1].path = hops[h][2].path) =>
         /\ hresp'[h][1].status = 200 =>
              /\ hops[h][1].path \notin DOMAIN commits'[ref'].tree
              /\ Len(hresults'[h]) = 2
              /\ hresults'[h][1].action \in {"created", "updated"}
              /\ hresults'[h][2].action = "deleted"
              /\ hresults'[h][1].commitSha < hresults'[h][2].commitSha
         /\ (requests = 1 /\ \A i \in 1..Len(hcalls'[h]) : hcalls'[h][i].status # 500) =>
              hresp'[h][1].status = 200]_vars

\* C22 witness: the file existed before the batch (the other request created
\* it), the batch updated and then deleted it
W_C22 ==
  /\ hresp["h1"] # <<>> /\ hresp["h1"][1].status = 200
  /\ Len(hops["h1"]) = 2
  /\ hops["h1"][1].op = "upsert" /\ hops["h1"][2].op = "delete"
  /\ hops["h1"][1].path = hops["h1"][2].path
  /\ hresults["h1"][1].action = "updated"
  /\ hops["h1"][1].path \notin DOMAIN HeadTree

\* C25: a delete of a path that is not a file on the branch issues no delete
\* request, creates no commit, leaves the branch as it is and fails with
\* status 404 (unless the read itself failed in transport).
C25_DeleteOfMissingFile ==
  [][\A h \in Handlers :
       (/\ hpc[h] = "read" /\ hpc'[h] # "read"
        /\ hops[h][hk[h]].op = "delete"
        /\ hops[h][hk[h]].path \notin DOMAIN HeadTree) =>
         /\ hpc'[h] = "responded"
         /\ hresp'[h][1].status = 404
              \/ hcalls'[h][Len(hcalls'[h])].status = 500
         /\ \A i \in 1..Len(hcalls'[h]) :
              ~(hcalls'[h][i].call = "deleteFile" /\ hcalls'[h][i].k = hk[h])
         /\ ref' = ref /\ commits' = commits]_vars

\* C25 witness: a delete of a directory path (the read answered 200 with a
\* directory) and a delete of a path that names nothing (the read answered
\* 404) were both answered 404, and the branch holds the one commit of the
\* upsert that made the directory
W_C25 ==
  /\ \A h \in Handlers : hresp[h] # <<>> /\ hresp[h][1].status = 404 /\ hrun[h] = "u1"
  /\ Len(hops["h1"]) = 2 /\ hops["h1"][2].op = "delete" /\ Len(hcalls["h1"]) = 3
  /\ hcalls["h1"][3].call = "getContent" /\ hcalls["h1"][3].status = 200
  /\ Len(hops["h2"]) = 1 /\ hops["h2"][1].op = "delete" /\ Len(hcalls["h2"]) = 1
  /\ hcalls["h2"][1].status = 404
  /\ ref = 2

\* C27: for one run there are never two requests with remote calls in flight:
\* the calls of the second start only after the first was answered.
C27_OneRequestAtATime ==
  \A g, h \in Handlers :
    (g # h /\ hrun[g] = hrun[h] /\ hpc[g] \in {"read", "write"} /\ hcalls[g] # <<>>)
    => hcalls[h] = <<>> \/ hpc[h] = "responded"

\* C23: whenever the status of a run is ready, the build output is completely
\* copied at the artifact location of the run, and the preview route serves
\* files of a run exactly while its status is ready (any other status gets a
\* status answer).
C23_ReadyMeansCopied ==
  \A id \in RunIds :
    /\ BuildStatusOf(runs, id) = "ready" =>
         builds[id] # <<>> /\ builds[id][1][1] # "copying"
    /\ PreviewResponse(runs, id).status = 200 <=> BuildStatusOf(runs, id) = "ready"
    /\ PreviewResponse(runs, id).status = 200 =>
         PreviewResponse(runs, id).body = [siteDir |-> id]

\* C24: no step of a validateBuild call changes the registry or an artifact
\* location, whatever the files and the outcome; the catch block yields the
\* failure with the excerpt of the caught message, and a call that returns
\* holds its result: success, or failure with the excerpt.
C24_ValidateBuildIsPure ==
  [][\A t \in Tasks :
       (/\ tkind'[t] = "validate"
        /\ <<tpc[t], tkind[t], ti[t], terr[t], tres[t]>> # <<tpc'[t], tkind'[t], ti'[t], terr'[t], tres'[t]>>) =>
         /\ runs' = runs
         /\ builds' = builds
         /\ (tpc[t] # "finally" /\ tpc'[t] = "finally") =>
              \/ terr'[t] = <<>> /\ tres'[t] = <<[success |-> TRUE]>>
              \/ /\ terr'[t] # <<>>
                 /\ tres'[t] = <<[success |-> FALSE, error |-> extractBuildError(terr'[t][1])]>>
         /\ tpc'[t] = "returned" => tres'[t] # <<>> /\ tres'[t] = tres[t]]_vars

\* C24 witness: one caller built the saved run to ready and then validated
\* files for the same run; the validation returned the failure of a command,
\* the run is still ready and its artifact is in place
W_C24 ==
  /\ tpc["t2"] = "idle" /\ started = 2
  /\ tkind["t1"] = "validate" /\ tpc["t1"] = "returned" /\ trun["t1"] = "u1"
  /\ tres["t1"] # <<>> /\ ~tres["t1"][1].success
  /\ TextLen(tres["t1"][1].error) > TextLen(FsError)
  /\ BuildStatusOf(runs, "u1") = "ready"
  /\ builds["u1"] # <<>> /\ builds["u1"][1][1] # "copying"

\* C26: every buildSiteAsync or validateBuild call eventually returns (or
\* rejects), also when a command it started never exits on its own: the
\* command is killed at the wall-clock ceiling.
C26_EveryBuildReturns ==
  \A t \in Tasks :
    (tpc[t] \notin {"idle", "returned", "threw"}) ~> (tpc[t] \in {"returned", "threw"})

\* C31: the build chain aborts on the first failing step. A command is
\* started only by the call whose previous step succeeded (install after the
\* writes, build after install, the copy after build); a step that fails goes
\* to the cleanup and nothing else follows; the artifact location changes only
\* in the copy of a call whose writes and commands all succeeded.
C31_AbortOnFirstFailure ==
  [][/\ \A t \in Tasks :
          /\ (tpc'[t] = "install" /\ tpc[t] # "install") =>
               tpc[t] \in {"write", "config"} /\ terr'[t] = <<>>
          /\ (tpc'[t] = "build" /\ tpc[t] # "build") =>
               tpc[t] = "install" /\ terr'[t] = <<>>
          /\ (tpc'[t] = "copy" /\ tpc[t] # "copy") =>
               tpc[t] = "build" /\ terr'[t] = <<>>
          /\ (tpc'[t] = "copying" /\ tpc[t] # "copying") =>
               tpc[t] = "copy" /\ terr'[t] = <<>>
          /\ (terr[t] = <<>> /\ terr'[t] # <<>>) =>
               /\ tpc'[t] = "finally"
               /\ builds' = builds
          /\ terr[t] # <<>> => tpc[t] = "finally"
          /\ tpc[t] = "finally" => tpc'[t] \in {"finally", "returned", "threw"}
     /\ builds' # builds =>
          \E t \in Tasks :
            /\ tkind[t] = "preview" /\ tpc[t] \in {"copy", "copying"}
            /\ terr[t] = <<>> /\ tpc'[t] # tpc[t]]_vars

\* C31 witness: the run was built to ready, then built again by the same
\* caller; the second build's command failed, the call has returned, and the
\* artifact of the first build is in place
W_C31 ==
  /\ tpc["t2"] = "idle" /\ started = 2
  /\ tkind["t1"] = "preview" /\ tpc["t1"] = "returned" /\ trun["t1"] = "u1"
  /\ BuildStatusOf(runs, "u1") = "failed"
  /\ TextLen(runs["u1"][1].buildError) > TextLen(FsError)
  /\ builds["u1"] # <<>> /\ builds["u1"][1][1] # "copying"

\* C32: no two build attempts that are running use the same working
\* directory, including two attempts of the same run, and an attempt never
\* starts in a directory that holds files of an earlier attempt.
C32_ExclusiveWorkDir ==
  /\ \A s, t \in Tasks :
       (s # t /\ ~TaskFree(s) /\ ~TaskFree(t)) => Dir(s) # Dir(t)
  /\ \A t \in Tasks :
       (tpc[t] = "write" /\ ti[t] = 1) => tmp[Dir(t)] = <<>>

\* C33: a buildSiteAsync call for a registered run always returns, never
\* rejects, and when it returns the status of the run is ready if all its
\* writes, its commands and its copy succeeded, and otherwise failed with the
\* error of the failing step as buildError.
C33_ReturnsReadyOrFailed ==
  [][\A t \in Tasks :
       (/\ tkind[t] = "preview" /\ runs[trun[t]] # <<>>
        /\ tpc[t] = "finally" /\ tpc'[t] # "finally") =>
         /\ tpc'[t] = "returned"
         /\ BuildStatusOf(runs', trun[t]) \in {"ready", "failed"}
         /\ BuildStatusOf(runs', trun[t]) = "ready" <=> terr[t] = <<>>
         /\ terr[t] # <<>> => runs'[trun[t]][1].buildError = terr[t][1]]_vars

\* C34: the generated files are committed as one atomic commit: while a run
\* is being populated the repository holds none of the generated files or all
\* of them, never some of them.
C34_AllOrNothingCommit ==
  opc \in {"upsert", "returned", "threw"} =>
    \/ repoFiles = {}
    \/ repoFiles = {ofiles[i].path : i \in 1..Len(ofiles)}

\* C35: updateRun changes only the fields named in its patch, keeps every
\* other field of the entry and every other entry, and creates nothing for a
\* run id without an entry; this holds for each update of buildSiteAsync
\* (building at the start, failed with the error in the catch block, ready
\* after the copy) whatever other call updated the same run before, and the
\* registry changes by nothing but these updates and the save of a new run.
C35_UpdateRunPatchesOneEntry ==
  [][LET Patched(id, patch) ==
           /\ \A r \in RunIds \ {id} : runs'[r] = runs[r]
           /\ runs[id] = <<>> => runs'[id] = <<>>
           /\ runs[id] # <<>> =>
                /\ runs'[id] # <<>>
                /\ DOMAIN runs'[id][1] = DOMAIN runs[id][1] \cup DOMAIN patch
                /\ \A f \in DOMAIN patch : runs'[id][1][f] = patch[f]
                /\ \A f \in DOMAIN runs[id][1] \ DOMAIN patch :
                     runs'[id][1][f] = runs[id][1][f]
         Starts(t) == TaskFree(t) /\ tpc'[t] = "write" /\ tkind'[t] = "preview"
         Fails(t) == tkind[t] = "preview" /\ terr[t] = <<>> /\ terr'[t] # <<>>
         Ends(t) == tpc[t] = "copying" /\ tpc'[t] = "finally" /\ terr'[t] = <<>>
         Saves == opc = "upsert" /\ opc' = "returned"
     IN /\ \A t \in Tasks :
             /\ Starts(t) => Patched(trun'[t], [buildStatus |-> "building"])
             /\ Fails(t) => Patched(trun[t], [buildStatus |-> "failed",
                                              buildError |-> terr'[t][1]])
             /\ Ends(t) => Patched(trun[t], [buildStatus |-> "ready"])
        /\ runs' # runs =>
             Saves \/ \E t \in Tasks : Starts(t) \/ Fails(t) \/ Ends(t)]_vars

\* C35 witness: the saved run holds the fields of its save next to the status
\* and the error two updates wrote, and a build of a run id without an entry
\* has returned and left no entry
W_C35 ==
  /\ runs["u1"] # <<>>
  /\ DOMAIN runs["u1"][1] = {"runId", "repo", "prompt", "buildStatus", "buildError"}
  /\ runs["u1"][1].repo = "repo" /\ runs["u1"][1].buildStatus = "failed"
  /\ tkind["t2"] = "preview" /\ trun["t2"] = "u2" /\ tpc["t2"] = "returned"
  /\ runs["u2"] = <<>>

\* C38: every entry of the registry has a status that is one of pending,
\* building, ready, failed, from the moment it is saved.
C38_StatusAlwaysSet ==
  \A id \in RunIds :
    getRun(runs, id) # <<>> =>
      BuildStatusOf(runs, id) \in {"pending", "building", "ready", "failed"}

\* C39: runPromptToRepo saves the run only in the step that ends it, after
\* the repository was created, the files were generated and every one of
\* them was upserted; a call that is running or has thrown has saved no entry
\* and has no run id to return.
C39_RegisteredOnlyAfterCommit ==
  /\ opc = "returned" =>
       /\ orun # <<>> /\ runs[orun[1]] # <<>>
       /\ Len(ofiles) > 0
       /\ repoFiles = {ofiles[i].path : i \in 1..Len(ofiles)}
  /\ opc # "returned" =>
       /\ orun = <<>>
       /\ \A id \in SavedIds : runs[id] = <<>>
  /\ opc = "threw" => oerr \in {"createRepo", "generate", "upsert"}

\* C39 witness: the repository was created and the first of two generated
\* files was committed when the second upsert failed; no run is registered
W_C39 ==
  /\ opc = "threw" /\ oerr = "upsert"
  /\ Len(ofiles) = 2 /\ Cardinality(repoFiles) = 1
  /\ orun = <<>> /\ \A id \in RunIds : runs[id] = <<>>

\* C36: every path dedupeAndNormalizeFiles produces is in normal form: it
\* holds no backslash, does not begin with a slash, does not begin or end
\* with a blank, is left unchanged by normalizeRepoPath, and no two entries
\* that are kept name the same file.
C36_NormalForm ==
  pc["r1"] = "normalized" =>
    LET out == normalizedFiles["r1"]
    IN /\ \A i \in 1..Len(out) :
            LET np == out[i].path
            IN /\ np # <<>>
               /\ \A k \in 1..Len(np) : np[k] # "\\"
               /\ Head(np) \notin {"/", " "}
               /\ np[Len(np)] # " "
               /\ normalizeRepoPath(np) = np
       /\ \A i, j \in 1..Len(out) :
            i # j => normalizeRepoPath(out[i].path) # normalizeRepoPath(out[j].path)

\* C37: a batch is not atomic. When operation k of a request fails, the
\* failing operation changes nothing, the commits of operations 1..k-1 stay
\* on the branch with their effect, no call of a later operation is issued
\* (then or later, until a new request arrives), and the request is answered
\* with an error that carries no results.
C37_BatchStopsAtFailure ==
  [][\A h \in Handlers :
       /\ (/\ hpc[h] \in {"read", "write"} /\ hpc'[h] = "responded"
           /\ Len(hresults'[h]) < Len(hops[h])) =>
            /\ hresp'[h][1].status \notin {200, 201}
            /\ "results" \notin DOMAIN hresp'[h][1]
            /\ ref' = ref /\ commits' = commits
            /\ Len(hresults'[h]) = hk[h] - 1
            /\ \A i \in 1..Len(hresults'[h]) :
                 LET c == hresults'[h][i].commitSha
                 IN /\ c \in 1..Len(commits) /\ IsAncestor(c, ref)
                    /\ hops[h][i].op = "upsert" <=> hops[h][i].path \in DOMAIN commits[c].tree
            /\ \A j \in 1..Len(hcalls'[h]) : hcalls'[h][j].k <= hk[h]
       /\ (hpc[h] = "responded" /\ requests' = requests) =>
            hcalls'[h] = hcalls[h] /\ hresp'[h] = hresp[h]]_vars

\* C37 witness: the only request upserted a file and then asked to delete a
\* path that names no file: it was answered 404, the commit of the upsert is
\* the head of the branch, and no call was made after the failing read
W_C37 ==
  /\ requests = 1 /\ hpc["h1"] = "responded" /\ hresp["h1"][1].status = 404
  /\ Len(hops["h1"]) = 2 /\ hops["h1"][1].op = "upsert" /\ hops["h1"][2].op = "delete"
  /\ Len(hresults["h1"]) = 1 /\ hresults["h1"][1].commitSha = ref
  /\ hops["h1"][1].path \in DOMAIN HeadTree
  /\ Len(hcalls["h1"]) = 3

====
